---- MODULE Spec2Model ----
(***************************************************************************)
(* midi2key: MIDI program-change / control-change frames are mapped to     *)
(* key sequences, forwarded MIDI messages and Boss Katana sysex commands.  *)
(*                                                                         *)
(* Strings that the program parses are modelled as sequences of one-       *)
(* character strings, so that split_once and u8 parsing are computed.      *)
(* Names that the program only compares for equality (key names, Katana    *)
(* action names) are atomic strings.                                       *)
(***************************************************************************)
EXTENDS Integers, Sequences, FiniteSets, TLC

VARIABLES
    \* ---- the program (main.rs: main, Handler; katana.rs: KatanaControl)
    config,          \* Config: midi_output (is one configured) and mappings
    pc,              \* where main is, or how it ended
    midi_out,        \* "None" | "Some": the output connection main opened
    kat,             \* "None" | "Some" | "Dropped": Option<KatanaControl>
    wire,            \* the frames KatanaControl handed to its connection
    mappings,        \* HashMap<Event, Action>
    frames,          \* number of frames the callback has handled
    last,            \* the last invocation of Handler::handle
    \* ---- event-string parsing (main.rs, impl TryFrom<&str> for Event)
    evtInput,        \* the string handed to Event::try_from
    evtResult,       \* its result, or NotParsed before the call
    \* ---- checksum (katana.rs, calculate_checksum)
    ckData,          \* the byte slice handed to calculate_checksum
    ckResult,        \* its result, or NotComputed before the call
    overflow_checks, \* build profile: TRUE when u8 `+` panics on overflow
    \* ---- KatanaControl called directly (katana.rs, change_preset)
    presetCalls      \* the change_preset calls made: preset and returned result

mainVars == <<config, pc, midi_out, kat, wire, mappings, frames, last>>
parseVars == <<evtInput, evtResult>>
ckVars == <<ckData, ckResult>>
katVars == <<presetCalls>>
vars == <<mainVars, parseVars, ckVars, overflow_checks, katVars>>

(***************************************************************************)
(* Bounds                                                                  *)
(***************************************************************************)
MaxMappings == 2     \* longest list of mapping descriptors in the configuration
MaxFrames == 2       \* number of frames delivered to the callback
MaxValLen == 3       \* longest value part of an event string
MaxDataLen == 3      \* longest byte slice handed to calculate_checksum
MaxPresetCalls == 2  \* number of direct change_preset calls on one channel

(***************************************************************************)
(* Generic helpers                                                         *)
(***************************************************************************)
SeqsUpTo(S, n) == UNION {[1..k -> S] : k \in 0..n}

Reverse(s) == [i \in 1..Len(s) |-> s[Len(s) + 1 - i]]

RECURSIVE SumSeq(_)
SumSeq(s) == IF s = <<>> THEN 0 ELSE s[1] + SumSeq(Tail(s))

(***************************************************************************)
(* str::parse::<u8>(): optional leading '+', then decimal digits, each     *)
(* step a checked multiply-add in u8.                                      *)
(***************************************************************************)
DigitChars == {"0", "1", "2", "3", "4", "5", "6", "7", "8", "9"}

DigitVal(c) ==
    CASE c = "0" -> 0 [] c = "1" -> 1 [] c = "2" -> 2 [] c = "3" -> 3
      [] c = "4" -> 4 [] c = "5" -> 5 [] c = "6" -> 6 [] c = "7" -> 7
      [] c = "8" -> 8 [] c = "9" -> 9

U8Max == 255

ParseErr == [ok |-> FALSE, val |-> 0]

RECURSIVE ParseDigits(_, _)
ParseDigits(s, acc) ==
    IF s = <<>> THEN [ok |-> TRUE, val |-> acc]
    ELSE IF s[1] \notin DigitChars THEN ParseErr
    ELSE IF acc * 10 + DigitVal(s[1]) > U8Max THEN ParseErr
    ELSE ParseDigits(Tail(s), acc * 10 + DigitVal(s[1]))

ParseU8(s) ==
    IF s = <<>> THEN ParseErr
    ELSE IF s[1] \in {"+", "-"} /\ Len(s) = 1 THEN ParseErr
    ELSE IF s[1] = "+" THEN ParseDigits(Tail(s), 0)
    ELSE ParseDigits(s, 0)

(***************************************************************************)
(* str::split_once(c) / splitn(2, c): split at the first occurrence of c.  *)
(***************************************************************************)
FirstIdx(s, c) ==
    IF \E i \in 1..Len(s) : s[i] = c
    THEN CHOOSE i \in 1..Len(s) : s[i] = c /\ \A j \in 1..(i - 1) : s[j] # c
    ELSE 0

SplitOnce(s, c) ==
    LET i == FirstIdx(s, c) IN
    IF i = 0 THEN [found |-> FALSE, t |-> <<>>, v |-> <<>>]
    ELSE [found |-> TRUE, t |-> SubSeq(s, 1, i - 1), v |-> SubSeq(s, i + 1, Len(s))]

(***************************************************************************)
(* impl TryFrom<&str> for Event                                            *)
(***************************************************************************)
NoEvent == [tag |-> "none", val |-> 0]
EventPC(n) == [tag |-> "PC", val |-> n]
EventCC(n) == [tag |-> "CC", val |-> n]

EventErr == [ok |-> FALSE, evt |-> NoEvent]

EventTryFrom(value) ==
    LET sp == SplitOnce(value, " ")
        n == ParseU8(sp.v)
    IN  IF ~sp.found THEN EventErr
        ELSE IF ~n.ok THEN EventErr
        ELSE IF sp.t = <<"P", "C">> THEN [ok |-> TRUE, evt |-> EventPC(n.val)]
        ELSE IF sp.t = <<"C", "C">> THEN [ok |-> TRUE, evt |-> EventCC(n.val)]
        ELSE EventErr

(***************************************************************************)
(* calculate_checksum: a u8 fold.  `sum + byte` is a u8 addition: with     *)
(* overflow checks it panics above 255, without them it wraps modulo 256.  *)
(***************************************************************************)
Panic == [panic |-> TRUE, val |-> 0]
Value(n) == [panic |-> FALSE, val |-> n]

RECURSIVE ChecksumFold(_, _, _)
ChecksumFold(data, sum, checks) ==
    IF data = <<>> THEN Value(sum)
    ELSE IF sum + data[1] > U8Max /\ checks THEN Panic
    ELSE ChecksumFold(Tail(data), ((sum + data[1]) % 256) % 128, checks)

calculate_checksum(data, checks) ==
    LET acc == ChecksumFold(data, 0, checks) IN
    IF acc.panic THEN Panic ELSE Value((128 - acc.val) % 128)

(***************************************************************************)
(* katana.rs: sysex framing                                                *)
(***************************************************************************)
ROLAND_MANUFACTURER_ID == <<65>>
SYSEX_WRITE_PREFIX == <<0, 0, 0, 0, 51, 18>>
EDIT_MODE_ON == <<127, 0, 0, 1, 1>>
EDIT_MODE_OFF == <<127, 0, 0, 1, 0>>
PRESET_ADDR == <<0, 1, 0, 0>>

Presets == {"Panel", "A1", "A2", "A3", "A4", "B1", "B2", "B3", "B4"}

PresetToU8(p) ==
    CASE p = "Panel" -> 0 [] p = "A1" -> 1 [] p = "A2" -> 2 [] p = "A3" -> 3
      [] p = "A4" -> 4 [] p = "B1" -> 5 [] p = "B2" -> 6 [] p = "B3" -> 7
      [] p = "B4" -> 8

\* Mutant: the checksum taken over the prefix and the command bytes.
create_sysex_payload_ChecksumAll(data, checks) ==
    SYSEX_WRITE_PREFIX \o data
      \o <<calculate_checksum(SYSEX_WRITE_PREFIX \o data, checks).val>>

\* The payload of SystemExclusiveMsg::Commercial.  The slices handed to it hold
\* bytes below 0x80 only, so the fold's `sum + byte` stays below 255.
create_sysex_payload(data, checks) ==
    SYSEX_WRITE_PREFIX \o data \o <<calculate_checksum(data, checks).val>>

create_sysex_message(data, checks) ==
    [id |-> ROLAND_MANUFACTURER_ID, data |-> create_sysex_payload(data, checks)]

PresetData(preset) == PRESET_ADDR \o <<0, PresetToU8(preset)>>

\* One frame handed to MidiOutputConnection::send by KatanaControl, with the
\* outcome of that send.
WireFrame(cmd, data, checks, ok) ==
    [cmd |-> cmd, msg |-> create_sysex_message(data, checks), ok |-> ok]

enter_edit_mode(checks, ok) == WireFrame("on", EDIT_MODE_ON, checks, ok)
exit_edit_mode(checks, ok) == WireFrame("off", EDIT_MODE_OFF, checks, ok)
change_preset(preset, checks, ok) == WireFrame("preset", PresetData(preset), checks, ok)

(***************************************************************************)
(* main.rs: KatanaAction and apply_katana_action                           *)
(***************************************************************************)
KatanaActionNames ==
    {"PRESET_PANEL", "PRESET_A1", "PRESET_A2", "PRESET_A3", "PRESET_A4",
     "PRESET_B1", "PRESET_B2", "PRESET_B3", "PRESET_B4"}

KatanaActionTryFrom(value) ==
    CASE value = "PRESET_PANEL" -> [ok |-> TRUE, act |-> "PresetPanel"]
      [] value = "PRESET_A1" -> [ok |-> TRUE, act |-> "PresetA1"]
      [] value = "PRESET_A2" -> [ok |-> TRUE, act |-> "PresetA2"]
      [] value = "PRESET_A3" -> [ok |-> TRUE, act |-> "PresetA3"]
      [] value = "PRESET_A4" -> [ok |-> TRUE, act |-> "PresetA4"]
      [] value = "PRESET_B1" -> [ok |-> TRUE, act |-> "PresetB1"]
      [] value = "PRESET_B2" -> [ok |-> TRUE, act |-> "PresetB2"]
      [] value = "PRESET_B3" -> [ok |-> TRUE, act |-> "PresetB3"]
      [] value = "PRESET_B4" -> [ok |-> TRUE, act |-> "PresetB4"]
      [] OTHER -> [ok |-> FALSE, act |-> "none"]

\* The preset apply_katana_action hands to change_preset.
apply_katana_action(act) ==
    CASE act = "PresetPanel" -> "Panel"
      [] act = "PresetA1" -> "A1" [] act = "PresetA2" -> "A2"
      [] act = "PresetA3" -> "A3" [] act = "PresetA4" -> "A4"
      [] act = "PresetB1" -> "B1" [] act = "PresetB2" -> "B2"
      [] act = "PresetB3" -> "B3" [] act = "PresetB4" -> "B4"

(***************************************************************************)
(* action/midi.rs: impl TryFrom<&str> for MidiAction                       *)
(***************************************************************************)
NoMidiAction == [tag |-> "none", a |-> 0, b |-> 0]
MidiErr == [ok |-> FALSE, act |-> NoMidiAction]

parse_cc_action(value) ==
    LET sp == SplitOnce(value, ":")
        c == ParseU8(sp.t)
        v == ParseU8(sp.v)
    IN  IF ~sp.found THEN MidiErr
        ELSE IF ~c.ok \/ ~v.ok THEN MidiErr
        ELSE [ok |-> TRUE, act |-> [tag |-> "CC", a |-> c.val, b |-> v.val]]

parse_pc_action(value) ==
    LET p == ParseU8(value) IN
    IF ~p.ok THEN MidiErr
    ELSE [ok |-> TRUE, act |-> [tag |-> "PC", a |-> p.val, b |-> 0]]

MidiActionTryFrom(value) ==
    LET sp == SplitOnce(value, " ") IN
    IF ~sp.found THEN MidiErr
    ELSE IF sp.t = <<"C", "C">> THEN parse_cc_action(sp.v)
    ELSE IF sp.t = <<"P", "C">> THEN parse_pc_action(sp.v)
    ELSE MidiErr

(***************************************************************************)
(* impl TryFrom<&MidiKeyMapping> for Action (main.rs and action.rs)        *)
(* An Option<Vec<String>> is [some |-> BOOLEAN, v |-> sequence].           *)
(***************************************************************************)
None == [some |-> FALSE, v |-> <<>>]
Some(v) == [some |-> TRUE, v |-> v]

KnownKeys == {"KEY_A", "KEY_B", "KEY_LEFTCTRL"}

KeyCodeFromStr(k) == [ok |-> k \in KnownKeys, code |-> k]

NoAction == [desc |-> "", keys |-> <<>>, kat |-> <<>>, midi |-> <<>>]
ActionErr == [ok |-> FALSE, act |-> NoAction]

ActionTryFrom(m) ==
    LET keysR == [i \in 1..Len(m.keys.v) |-> KeyCodeFromStr(m.keys.v[i])]
        katR == [i \in 1..Len(m.kat.v) |-> KatanaActionTryFrom(m.kat.v[i])]
        midiR == [i \in 1..Len(m.midi.v) |-> MidiActionTryFrom(m.midi.v[i])]
    IN  IF \E i \in 1..Len(keysR) : ~keysR[i].ok THEN ActionErr
        ELSE IF \E i \in 1..Len(katR) : ~katR[i].ok THEN ActionErr
        ELSE IF \E i \in 1..Len(midiR) : ~midiR[i].ok THEN ActionErr
        ELSE [ok |-> TRUE,
              act |-> [desc |-> m.description,
                       keys |-> [i \in 1..Len(keysR) |-> keysR[i].code],
                       kat |-> [i \in 1..Len(katR) |-> katR[i].act],
                       midi |-> [i \in 1..Len(midiR) |-> midiR[i].act]]]

(***************************************************************************)
(* main.rs: get_mappings.  The table is a function from events to actions; *)
(* HashMap::insert replaces the value of a key that is present.            *)
(***************************************************************************)
EmptyTable == <<>>

\* Mutant: an insert that keeps the value of a key that is present.
HashMapInsert_KeepFirst(table, k, v) == table @@ (k :> v)

HashMapInsert(table, k, v) == (k :> v) @@ table

RECURSIVE GetMappingsLoop(_, _)
GetMappingsLoop(ms, table) ==
    IF ms = <<>> THEN [ok |-> TRUE, table |-> table]
    ELSE LET event == EventTryFrom(ms[1].event)
             action == ActionTryFrom(ms[1])
         IN  IF ~event.ok THEN [ok |-> FALSE, table |-> EmptyTable]
             ELSE IF ~action.ok THEN [ok |-> FALSE, table |-> EmptyTable]
             ELSE GetMappingsLoop(Tail(ms), HashMapInsert(table, event.evt, action.act))

get_mappings(cfg) == GetMappingsLoop(cfg.mappings, EmptyTable)

(***************************************************************************)
(* midly::live::LiveEvent::parse as Handler::handle uses it: a status byte *)
(* 0x80..0xEF with its data bytes is a channel-voice message, a status     *)
(* byte 0xF0..0xFF is a system event, anything else is an error.           *)
(***************************************************************************)
NoMsg == [type |-> "none", d1 |-> 0, d2 |-> 0]

DataLen(status) == IF status \div 16 \in {12, 13} THEN 1 ELSE 2

MsgType(status) ==
    CASE status \div 16 = 8 -> "NoteOff"
      [] status \div 16 = 9 -> "NoteOn"
      [] status \div 16 = 10 -> "Aftertouch"
      [] status \div 16 = 11 -> "Controller"
      [] status \div 16 = 12 -> "ProgramChange"
      [] status \div 16 = 13 -> "ChannelAftertouch"
      [] status \div 16 = 14 -> "PitchBend"

\* The data bytes up to the first byte that is no u7.
RECURSIVE U7Prefix(_)
U7Prefix(bytes) ==
    IF bytes = <<>> \/ bytes[1] > 127 THEN <<>>
    ELSE <<bytes[1]>> \o U7Prefix(Tail(bytes))

\* Mutant: a parser that accepts every frame, padding missing data bytes.
LiveEventParse_Lenient(raw) ==
    IF raw = <<>> THEN [kind |-> "Other", msg |-> NoMsg]
    ELSE LET status == raw[1]
             data == U7Prefix(Tail(raw)) \o <<0, 0>>
         IN  IF status < 128 THEN [kind |-> "Other", msg |-> NoMsg]
             ELSE IF status >= 240 THEN [kind |-> "Other", msg |-> NoMsg]
             ELSE [kind |-> "Midi",
                   msg |-> [type |-> MsgType(status), d1 |-> data[1],
                            d2 |-> IF DataLen(status) = 2 THEN data[2] ELSE 0]]

LiveEventParse(raw) ==
    IF raw = <<>> THEN [kind |-> "Err", msg |-> NoMsg]
    ELSE LET status == raw[1]
             data == U7Prefix(Tail(raw))
         IN  IF status < 128 THEN [kind |-> "Err", msg |-> NoMsg]
             ELSE IF status >= 240 THEN [kind |-> "Other", msg |-> NoMsg]
             ELSE IF Len(data) < DataLen(status) THEN [kind |-> "Err", msg |-> NoMsg]
             ELSE [kind |-> "Midi",
                   msg |-> [type |-> MsgType(status), d1 |-> data[1],
                            d2 |-> IF DataLen(status) = 2 THEN data[2] ELSE 0]]

\* Mutant: the value byte of a Controller message takes part in the event.
EventOfMessage_WithValue(msg) ==
    IF msg.type = "ProgramChange" THEN EventPC(msg.d1)
    ELSE IF msg.type = "Controller" THEN EventCC((msg.d1 + msg.d2) % 256)
    ELSE NoEvent

\* main.rs 140-147, handler.rs 35-42: the event of a channel-voice message.
EventOfMessage(msg) ==
    IF msg.type = "ProgramChange" THEN EventPC(msg.d1)
    ELSE IF msg.type = "Controller" THEN EventCC(msg.d1)
    ELSE NoEvent

(***************************************************************************)
(* Handler::handle.  Each send of one invocation (VirtualDevice::emit,     *)
(* MidiOutputConnection::send) is numbered from 1 in the order the code    *)
(* reaches it; failAt is the number of the send that returns an error      *)
(* (0: none does).  A Send records one call that was made, with its        *)
(* outcome.                                                                *)
(***************************************************************************)
NoFrame == [cmd |-> "none", msg |-> [id |-> <<>>, data |-> <<>>], ok |-> FALSE]

KeySend(batch, ok) ==
    [leg |-> "key", ok |-> ok, batch |-> batch, out |-> NoMidiAction, dev |-> NoFrame]
OutSend(m, ok) ==
    [leg |-> "out", ok |-> ok, batch |-> <<>>, out |-> m, dev |-> NoFrame]
DevSend(f) ==
    [leg |-> "dev", ok |-> f.ok, batch |-> <<>>, out |-> NoMidiAction, dev |-> f]

Outcome(result, advisory, trace) ==
    [result |-> result, advisory |-> advisory, trace |-> trace]

\* Mutant: the releases in the order of the presses (no .rev()).
KeyBatch_SameOrder(keys) ==
    [i \in 1..Len(keys) |-> [key |-> keys[i], value |-> 1]]
      \o [i \in 1..Len(keys) |-> [key |-> keys[i], value |-> 0]]

\* KeyEvent::new(k, 1) for every key in order, then KeyEvent::new(k, 0) for
\* every key in reverse order.
KeyBatch(keys) ==
    [i \in 1..Len(keys) |-> [key |-> keys[i], value |-> 1]]
      \o [i \in 1..Len(keys) |-> [key |-> Reverse(keys)[i], value |-> 0]]

emit_keyboard_events(keys, failAt, n) ==
    [ok |-> n # failAt, trace |-> <<KeySend(KeyBatch(keys), n # failAt)>>]

\* Mutant: the loop goes on after a send that failed.
RECURSIVE KatanaLeg_KeepGoing(_, _, _, _)
KatanaLeg_KeepGoing(cmds, checks, failAt, n) ==
    IF cmds = <<>> THEN [ok |-> TRUE, trace |-> <<>>]
    ELSE LET f == change_preset(apply_katana_action(cmds[1]), checks, n # failAt)
             rest == KatanaLeg_KeepGoing(Tail(cmds), checks, failAt, n + 1)
         IN  [ok |-> f.ok /\ rest.ok, trace |-> <<DevSend(f)>> \o rest.trace]

\* main.rs 174-176: `for act in &act.kat { apply_katana_action(kat, act)?; }`
RECURSIVE KatanaLeg(_, _, _, _)
KatanaLeg(cmds, checks, failAt, n) ==
    IF cmds = <<>> THEN [ok |-> TRUE, trace |-> <<>>]
    ELSE LET f == change_preset(apply_katana_action(cmds[1]), checks, n # failAt) IN
         IF ~f.ok THEN [ok |-> FALSE, trace |-> <<DevSend(f)>>]
         ELSE LET rest == KatanaLeg(Tail(cmds), checks, failAt, n + 1) IN
              [ok |-> rest.ok, trace |-> <<DevSend(f)>> \o rest.trace]

\* handler.rs 94-113: `for act in acts { ...; midi_out.send(..)?; }`
RECURSIVE MidiLoop(_, _, _)
MidiLoop(acts, failAt, n) ==
    IF acts = <<>> THEN [ok |-> TRUE, trace |-> <<>>]
    ELSE IF n = failAt THEN [ok |-> FALSE, trace |-> <<OutSend(acts[1], FALSE)>>]
    ELSE LET rest == MidiLoop(Tail(acts), failAt, n + 1) IN
         [ok |-> rest.ok, trace |-> <<OutSend(acts[1], TRUE)>> \o rest.trace]

\* Mutant: a missing output with messages to send is an error.
emit_midi_events_MissingIsError(out, acts, failAt, n) ==
    IF out = "None"
    THEN [ok |-> acts = <<>>, trace |-> <<>>, warn |-> acts # <<>>]
    ELSE [ok |-> MidiLoop(acts, failAt, n).ok,
          trace |-> MidiLoop(acts, failAt, n).trace, warn |-> FALSE]

\* handler.rs 79-116: without an output only a warning is logged.
emit_midi_events(out, acts, failAt, n) ==
    IF out = "None"
    THEN [ok |-> TRUE, trace |-> <<>>, warn |-> acts # <<>>]
    ELSE [ok |-> MidiLoop(acts, failAt, n).ok,
          trace |-> MidiLoop(acts, failAt, n).trace, warn |-> FALSE]

\* Mutant: an Event whose Hash and Eq look at the tag only.
TableGet_TagOnly(table, evt) ==
    IF \E e \in DOMAIN table : e.tag = evt.tag
    THEN [some |-> TRUE, act |-> table[CHOOSE e \in DOMAIN table : e.tag = evt.tag]]
    ELSE [some |-> FALSE, act |-> NoAction]

\* HashMap::get(&evt): Event derives Hash and Eq over its tag and value.
TableGet(table, evt) ==
    IF evt \in DOMAIN table THEN [some |-> TRUE, act |-> table[evt]]
    ELSE [some |-> FALSE, act |-> NoAction]

\* Mutant: the Katana actions before the keys.
MainHandle_DevFirst(raw, table, katOpt, checks, failAt) ==
    LET ev == LiveEventParse(raw) IN
    IF ev.kind = "Err" THEN Outcome("Err", "none", <<>>)
    ELSE IF ev.kind = "Other" THEN Outcome("Ok", "ignored", <<>>)
    ELSE LET evt == EventOfMessage(ev.msg) IN
         IF evt = NoEvent THEN Outcome("Ok", "unsupported", <<>>)
         ELSE IF ~TableGet(table, evt).some THEN Outcome("Ok", "unmapped", <<>>)
         ELSE LET act == TableGet(table, evt).act
                  devLeg == IF katOpt = "Some" THEN KatanaLeg(act.kat, checks, failAt, 1)
                            ELSE [ok |-> TRUE, trace |-> <<>>]
                  keyLeg == emit_keyboard_events(act.keys, failAt, 1 + Len(devLeg.trace))
              IN  IF ~devLeg.ok THEN Outcome("Err", "none", devLeg.trace)
                  ELSE Outcome(IF keyLeg.ok THEN "Ok" ELSE "Err", "none",
                               devLeg.trace \o keyLeg.trace)

\* Handler::handle of main.rs: keys, then the Katana actions.
MainHandle(raw, table, katOpt, checks, failAt) ==
    LET ev == LiveEventParse(raw) IN
    IF ev.kind = "Err" THEN Outcome("Err", "none", <<>>)
    ELSE IF ev.kind = "Other" THEN Outcome("Ok", "ignored", <<>>)
    ELSE LET evt == EventOfMessage(ev.msg) IN
         IF evt = NoEvent THEN Outcome("Ok", "unsupported", <<>>)
         ELSE IF ~TableGet(table, evt).some THEN Outcome("Ok", "unmapped", <<>>)
         ELSE LET act == TableGet(table, evt).act
                  keyLeg == emit_keyboard_events(act.keys, failAt, 1)
                  devLeg == KatanaLeg(act.kat, checks, failAt, 2)
              IN  IF ~keyLeg.ok THEN Outcome("Err", "none", keyLeg.trace)
                  ELSE IF katOpt = "Some"
                  THEN Outcome(IF devLeg.ok THEN "Ok" ELSE "Err", "none",
                               keyLeg.trace \o devLeg.trace)
                  ELSE Outcome("Ok", IF act.kat # <<>> THEN "no_output" ELSE "none",
                               keyLeg.trace)

\* Handler::handle of handler.rs: keys, then the outgoing MIDI messages.
HandlerHandle(raw, table, out, failAt) ==
    LET ev == LiveEventParse(raw) IN
    IF ev.kind = "Err" THEN Outcome("Err", "none", <<>>)
    ELSE IF ev.kind = "Other" THEN Outcome("Ok", "ignored", <<>>)
    ELSE LET evt == EventOfMessage(ev.msg) IN
         IF evt = NoEvent THEN Outcome("Ok", "unsupported", <<>>)
         ELSE IF ~TableGet(table, evt).some THEN Outcome("Ok", "unmapped", <<>>)
         ELSE LET act == TableGet(table, evt).act
                  keyLeg == emit_keyboard_events(act.keys, failAt, 1)
                  outLeg == emit_midi_events(out, act.midi, failAt, 2)
              IN  IF ~keyLeg.ok THEN Outcome("Err", "none", keyLeg.trace)
                  ELSE Outcome(IF outLeg.ok THEN "Ok" ELSE "Err",
                               IF outLeg.warn THEN "no_output" ELSE "none",
                               keyLeg.trace \o outLeg.trace)

(***************************************************************************)
(* Inputs: mapping descriptors of the configuration, and raw frames.       *)
(***************************************************************************)
MapA ==
    [event |-> <<"P", "C", " ", "1">>, description |-> "a",
     keys |-> Some(<<"KEY_LEFTCTRL", "KEY_A">>),
     kat |-> Some(<<"PRESET_A1", "PRESET_B4">>),
     midi |-> None]
MapB ==
    [event |-> <<"P", "C", " ", "1">>, description |-> "b",
     keys |-> Some(<<"KEY_B", "KEY_B">>),
     kat |-> None,
     midi |-> Some(<< <<"C", "C", " ", "7", ":", "1", "0", "0">>,
                     <<"P", "C", " ", "3">> >>)]
MapC ==
    [event |-> <<"C", "C", " ", "6", "4">>, description |-> "c",
     keys |-> None,
     kat |-> Some(<<"PRESET_PANEL">>),
     midi |-> Some(<< <<"P", "C", " ", "3">> >>)]
MapBadEvent ==
    [event |-> <<"P", "C">>, description |-> "x",
     keys |-> None, kat |-> None, midi |-> None]
MapBadKat ==
    [event |-> <<"C", "C", " ", "6", "4">>, description |-> "y",
     keys |-> Some(<<"KEY_A">>), kat |-> Some(<<"PRESET_C1">>), midi |-> None]

Descriptors == {MapA, MapB, MapC, MapBadEvent, MapBadKat}

Frames ==
    { <<192, 1>>,            \* program change 1
      <<192, 9>>,            \* program change 9
      <<176, 64, 0>>,        \* controller 64, value 0
      <<176, 64, 127>>,      \* controller 64, value 127
      <<144, 60, 100>>,      \* note on
      <<248>>,               \* timing clock
      <<192>>,               \* program change without its data byte
      <<>> }

\* Largest number of sends of one invocation: the key batch and the commands.
SendBudget == 3

NoCall == [handler |-> "none", frame |-> <<>>, result |-> "none",
           advisory |-> "none", trace |-> <<>>]

Call(handler, frame, o) ==
    [handler |-> handler, frame |-> frame, result |-> o.result,
     advisory |-> o.advisory, trace |-> o.trace]

\* The frames among the sends of an invocation that went to KatanaControl.
RECURSIVE DevFrames(_)
DevFrames(trace) ==
    IF trace = <<>> THEN <<>>
    ELSE IF trace[1].leg = "dev" THEN <<trace[1].dev>> \o DevFrames(Tail(trace))
    ELSE DevFrames(Tail(trace))

NotParsed == [ok |-> FALSE, evt |-> [tag |-> "pending", val |-> 0]]
NotComputed == [panic |-> FALSE, val |-> -1]

ParseIdle == evtInput = <<>> /\ evtResult = NotParsed
CkIdle == ckData = <<>> /\ ckResult = NotComputed
KatIdle == presetCalls = <<>>

Init ==
    /\ config \in [midi_output : BOOLEAN, mappings : SeqsUpTo(Descriptors, MaxMappings)]
    /\ pc = "create_kb"
    /\ midi_out = "None"
    /\ kat = "None"
    /\ wire = <<>>
    /\ mappings = EmptyTable
    /\ frames = 0
    /\ last = NoCall
    /\ overflow_checks \in BOOLEAN
    /\ ParseIdle
    /\ CkIdle
    /\ KatIdle

(***************************************************************************)
(* main                                                                    *)
(***************************************************************************)
\* main.rs 257: virtual_keyboard::create_virtual_keyboard()?
CreateVirtualKeyboard ==
    /\ pc = "create_kb"
    /\ \E ok \in BOOLEAN : pc' = IF ok THEN "open_output" ELSE "err_kb"
    /\ UNCHANGED <<config, midi_out, kat, wire, mappings, frames, last>>
    /\ UNCHANGED <<parseVars, ckVars, katVars, overflow_checks>>

\* main.rs 258-261: the output connection, when one is configured.
OpenMidiOutput ==
    /\ pc = "open_output"
    /\ \E ok \in BOOLEAN :
         IF ~config.midi_output THEN midi_out' = "None" /\ pc' = "katana_new"
         ELSE IF ok THEN midi_out' = "Some" /\ pc' = "katana_new"
         ELSE midi_out' = "None" /\ pc' = "err_output"
    /\ UNCHANGED <<config, kat, wire, mappings, frames, last>>
    /\ UNCHANGED <<parseVars, ckVars, katVars, overflow_checks>>

\* Mutant: a Drop that sends the edit-exit command again when it failed.
KatanaDrop_Retry(w, checks, ok) ==
    IF ok THEN Append(w, exit_edit_mode(checks, TRUE))
    ELSE Append(Append(w, exit_edit_mode(checks, FALSE)), exit_edit_mode(checks, TRUE))

\* impl Drop for KatanaControl: one exit_edit_mode, its error only logged.
KatanaDrop(w, checks, ok) == Append(w, exit_edit_mode(checks, ok))

\* Mutant: a constructor that discards the result of enter_edit_mode.
KatanaControlNew_IgnoreError(w, checks, okOn, okOff) ==
    [ok |-> TRUE, wire |-> Append(w, enter_edit_mode(checks, okOn))]

\* KatanaControl::new: the value is built, then enter_edit_mode()? runs; when
\* that fails the value goes out of scope, which runs its Drop.
KatanaControlNew(w, checks, okOn, okOff) ==
    IF okOn
    THEN [ok |-> TRUE, wire |-> Append(w, enter_edit_mode(checks, TRUE))]
    ELSE [ok |-> FALSE,
          wire |-> KatanaDrop(Append(w, enter_edit_mode(checks, FALSE)), checks, okOff)]

\* main.rs 263-266
MainKatanaNew ==
    /\ pc = "katana_new"
    /\ IF midi_out = "None"
       THEN kat' = "None" /\ wire' = wire /\ pc' = "get_mappings"
       ELSE \E okOn \in BOOLEAN, okOff \in BOOLEAN :
              LET r == KatanaControlNew(wire, overflow_checks, okOn, okOff) IN
              /\ wire' = r.wire
              /\ kat' = IF r.ok THEN "Some" ELSE "Dropped"
              /\ pc' = IF r.ok THEN "get_mappings" ELSE "err_kat"
    /\ UNCHANGED <<config, midi_out, mappings, frames, last>>
    /\ UNCHANGED <<parseVars, ckVars, katVars, overflow_checks>>

\* Mutant: the value is leaked (its Drop never runs) when its owner goes away.
DropOption_Forget(k, w, checks, ok) ==
    IF k = "Some" THEN [kat |-> "Dropped", wire |-> w]
    ELSE [kat |-> k, wire |-> w]

\* What leaving scope does to an Option<KatanaControl>.
DropOption(k, w, checks, ok) ==
    IF k = "Some" THEN [kat |-> "Dropped", wire |-> KatanaDrop(w, checks, ok)]
    ELSE [kat |-> k, wire |-> w]

\* main.rs 268: get_mappings(&config)?  An error returns from main, which
\* drops kat.
MainGetMappings ==
    /\ pc = "get_mappings"
    /\ LET r == get_mappings(config) IN
       IF r.ok
       THEN /\ mappings' = r.table
            /\ pc' = "connect_input"
            /\ UNCHANGED <<kat, wire>>
       ELSE \E ok \in BOOLEAN :
              LET d == DropOption(kat, wire, overflow_checks, ok) IN
              /\ mappings' = mappings
              /\ pc' = "err_mappings"
              /\ kat' = d.kat
              /\ wire' = d.wire
    /\ UNCHANGED <<config, midi_out, frames, last>>
    /\ UNCHANGED <<parseVars, ckVars, katVars, overflow_checks>>

\* main.rs 270-271: the handler is moved into get_midi_input_conn; when the
\* connection fails the handler is dropped there, and main returns the error.
ConnectMidiInput ==
    /\ pc = "connect_input"
    /\ \E okConn \in BOOLEAN, ok \in BOOLEAN :
         IF okConn
         THEN pc' = "running" /\ UNCHANGED <<kat, wire>>
         ELSE LET d == DropOption(kat, wire, overflow_checks, ok) IN
              pc' = "err_input" /\ kat' = d.kat /\ wire' = d.wire
    /\ UNCHANGED <<config, midi_out, mappings, frames, last>>
    /\ UNCHANGED <<parseVars, ckVars, katVars, overflow_checks>>

\* Mutant: a callback that unwraps the result, so an error ends the thread.
CallbackAfter_Unwrap(result) == IF result = "Err" THEN "callback_dead" ELSE "running"

\* midi.rs 32-36: the callback logs an error result of handle and returns, so
\* the connection goes on delivering frames.
CallbackAfter(result) == "running"

\* Mutant: a lookup that takes the entry out of the table (remove for get).
MappingsAfterHandle_Remove(table, raw) ==
    LET ev == LiveEventParse(raw)
        evt == IF ev.kind = "Midi" THEN EventOfMessage(ev.msg) ELSE NoEvent
    IN  [e \in DOMAIN table \ {evt} |-> table[e]]

\* self.mappings after handle: handle reaches the table only through
\* HashMap::get, a shared borrow; none of its statements writes the table.
MappingsAfterHandle(table, raw) == table

\* The callback hands one frame to Handler::handle of main.rs.
Handle ==
    /\ pc = "running"
    /\ frames < MaxFrames
    /\ \E raw \in Frames, failAt \in 0..SendBudget :
         LET o == MainHandle(raw, mappings, kat, overflow_checks, failAt) IN
         /\ last' = Call("main", raw, o)
         /\ wire' = wire \o DevFrames(o.trace)
         /\ pc' = CallbackAfter(o.result)
         /\ mappings' = MappingsAfterHandle(mappings, raw)
    /\ frames' = frames + 1
    /\ UNCHANGED <<config, midi_out, kat>>
    /\ UNCHANGED <<parseVars, ckVars, katVars, overflow_checks>>

\* The same callback with the Handler of handler.rs, whose midi_out is the
\* output connection itself.
HandleForward ==
    /\ pc = "running"
    /\ frames < MaxFrames
    /\ \E raw \in Frames, failAt \in 0..SendBudget :
         LET o == HandlerHandle(raw, mappings, midi_out, failAt) IN
         /\ last' = Call("handler", raw, o)
         /\ pc' = CallbackAfter(o.result)
         /\ mappings' = MappingsAfterHandle(mappings, raw)
    /\ frames' = frames + 1
    /\ UNCHANGED <<config, midi_out, kat, wire>>
    /\ UNCHANGED <<parseVars, ckVars, katVars, overflow_checks>>

\* Mutant: main fails when the edit-exit send of the teardown failed.
MainReturn_PropagateDrop(w) ==
    IF w # <<>> /\ w[Len(w)].cmd = "off" /\ ~w[Len(w)].ok
    THEN "err_teardown" ELSE "done"

\* main.rs 280: main returns Ok(()) whatever the drops of its locals did
\* (katana.rs 90-92 only logs a failed edit-exit send).
MainReturn(w) == "done"

\* main.rs 278-281: the signal arrives and main returns; _conn is dropped,
\* and with it the handler and its KatanaControl.
Shutdown ==
    /\ pc = "running"
    /\ \E ok \in BOOLEAN :
         LET d == DropOption(kat, wire, overflow_checks, ok) IN
         kat' = d.kat /\ wire' = d.wire /\ pc' = MainReturn(d.wire)
    /\ UNCHANGED <<config, midi_out, mappings, frames, last>>
    /\ UNCHANGED <<parseVars, ckVars, katVars, overflow_checks>>

Next ==
    \/ CreateVirtualKeyboard
    \/ OpenMidiOutput
    \/ MainKatanaNew
    \/ MainGetMappings
    \/ ConnectMidiInput
    \/ Handle
    \/ HandleForward
    \/ Shutdown

Spec == Init /\ [][Next]_vars

(***************************************************************************)
(* Event::try_from on its own: every event string of the input set.        *)
(***************************************************************************)
TypeTokens == {<<"P", "C">>, <<"C", "C">>, <<"X", "X">>, <<"p", "c">>, <<>>}
ValChars == {"0", "2", "4", "6", "+", " "}

EventStrings ==
    {t \o sep \o v : t \in TypeTokens, sep \in {<<>>, <<" ">>},
                      v \in SeqsUpTo(ValChars, MaxValLen)}

MainIdle ==
    /\ config = [midi_output |-> FALSE, mappings |-> <<>>]
    /\ pc = "idle"
    /\ midi_out = "None"
    /\ kat = "None"
    /\ wire = <<>>
    /\ mappings = EmptyTable
    /\ frames = 0
    /\ last = NoCall

InitParse ==
    /\ MainIdle
    /\ CkIdle
    /\ KatIdle
    /\ overflow_checks = FALSE
    /\ evtInput \in EventStrings
    /\ evtResult = NotParsed

ParseEvent ==
    /\ evtResult = NotParsed
    /\ evtResult' = EventTryFrom(evtInput)
    /\ UNCHANGED <<evtInput, mainVars, ckVars, katVars, overflow_checks>>

NextParse == ParseEvent

SpecParse == InitParse /\ [][NextParse]_vars

(***************************************************************************)
(* calculate_checksum on its own: byte slices over sample bytes, in a      *)
(* build with and in a build without overflow checks.                      *)
(***************************************************************************)
ByteSamples == {0, 1, 127, 128, 129, 255}

InitChecksum ==
    /\ MainIdle
    /\ ParseIdle
    /\ KatIdle
    /\ overflow_checks \in BOOLEAN
    /\ ckData \in SeqsUpTo(ByteSamples, MaxDataLen)
    /\ ckResult = NotComputed

CalcChecksum ==
    /\ ckResult = NotComputed
    /\ ckResult' = calculate_checksum(ckData, overflow_checks)
    /\ UNCHANGED <<ckData, mainVars, parseVars, katVars, overflow_checks>>

NextChecksum == CalcChecksum

SpecChecksum == InitChecksum /\ [][NextChecksum]_vars

(***************************************************************************)
(* KatanaControl on its own: a caller constructs the channel, calls        *)
(* change_preset with any presets, and lets the channel go out of scope.   *)
(***************************************************************************)
\* Mutant: a send whose error is discarded (`let _ = self.conn.send(..)`).
SendResult_Swallow(f) == "Ok"

\* KatanaControl::send: `self.conn.send(..)?; Ok(())`.
SendResult(f) == IF f.ok THEN "Ok" ELSE "Err"

InitKatana ==
    /\ config = [midi_output |-> TRUE, mappings |-> <<>>]
    /\ pc = "katana_uninit"
    /\ midi_out = "Some"
    /\ kat = "None"
    /\ wire = <<>>
    /\ mappings = EmptyTable
    /\ frames = 0
    /\ last = NoCall
    /\ overflow_checks \in BOOLEAN
    /\ ParseIdle
    /\ CkIdle
    /\ KatIdle

\* KatanaControl::new(conn)
KatanaNew ==
    /\ pc = "katana_uninit"
    /\ \E okOn \in BOOLEAN, okOff \in BOOLEAN :
         LET r == KatanaControlNew(wire, overflow_checks, okOn, okOff) IN
         /\ wire' = r.wire
         /\ kat' = IF r.ok THEN "Some" ELSE "Dropped"
         /\ pc' = IF r.ok THEN "katana_active" ELSE "katana_failed"
    /\ UNCHANGED <<config, midi_out, mappings, frames, last>>
    /\ UNCHANGED <<parseVars, ckVars, katVars, overflow_checks>>

\* kat.change_preset(preset)
KatanaChangePreset ==
    /\ pc = "katana_active"
    /\ Len(presetCalls) < MaxPresetCalls
    /\ \E preset \in Presets, ok \in BOOLEAN :
         LET f == change_preset(preset, overflow_checks, ok) IN
         /\ wire' = Append(wire, f)
         /\ presetCalls' = Append(presetCalls, [preset |-> preset, result |-> SendResult(f)])
    /\ UNCHANGED <<config, pc, midi_out, kat, mappings, frames, last>>
    /\ UNCHANGED <<parseVars, ckVars, overflow_checks>>

\* The channel goes out of scope.
KatanaTeardown ==
    /\ pc = "katana_active"
    /\ \E ok \in BOOLEAN :
         LET d == DropOption(kat, wire, overflow_checks, ok) IN
         kat' = d.kat /\ wire' = d.wire
    /\ pc' = "katana_closed"
    /\ UNCHANGED <<config, midi_out, mappings, frames, last>>
    /\ UNCHANGED <<parseVars, ckVars, katVars, overflow_checks>>

NextKatana ==
    \/ KatanaNew
    \/ KatanaChangePreset
    \/ KatanaTeardown

SpecKatana == InitKatana /\ [][NextKatana]_vars

(***************************************************************************)
(* Properties                                                              *)
(***************************************************************************)
Count(w, cmd) == Cardinality({i \in DOMAIN w : w[i].cmd = cmd})

\* The channel was constructed: its edit-entry send succeeded.
Constructed == wire # <<>> /\ wire[1].cmd = "on" /\ wire[1].ok

TerminalPcs == {"done", "err_kb", "err_output", "err_kat", "err_mappings", "err_input"}

\* The event the last handled frame decodes to (NoEvent when it has none).
LastEvent ==
    LET p == LiveEventParse(last.frame) IN
    IF p.kind = "Midi" THEN EventOfMessage(p.msg) ELSE NoEvent

LastMapped ==
    last.handler # "none" /\ LET e == LastEvent IN e # NoEvent /\ e \in DOMAIN mappings

LastUnmapped ==
    last.handler # "none" /\ LET e == LastEvent IN e # NoEvent /\ e \notin DOMAIN mappings

KeySends(trace) == {i \in DOMAIN trace : trace[i].leg = "key"}

\* C7: for every byte slice, calculate_checksum returns
\* (0x80 - (sum mod 0x80)) mod 0x80 and never overflows or fails.
ChecksumTotal ==
    ckResult # NotComputed =>
        /\ ~ckResult.panic
        /\ ckResult.val = (128 - (SumSeq(ckData) % 128)) % 128
        /\ ckResult.val \in 0..127
        /\ (SumSeq(ckData) + ckResult.val) % 128 = 0

\* C9: an event string parses only as "<TYPE> <value>" with TYPE PC or CC and
\* a value in 0..127: "CC 64" gives ControlChange(64), "PC 200" is rejected,
\* and no parsed event has a value above 127.
EventParseSevenBit ==
    evtResult # NotParsed =>
        /\ evtResult.ok =>
             /\ evtResult.evt.tag \in {"PC", "CC"}
             /\ evtResult.evt.val \in 0..127
             /\ Len(evtInput) >= 4
             /\ SubSeq(evtInput, 1, 3) \in {<<"P", "C", " ">>, <<"C", "C", " ">>}
        /\ evtInput = <<"C", "C", " ", "6", "4">> =>
             evtResult = [ok |-> TRUE, evt |-> EventCC(64)]
        /\ evtInput = <<"P", "C", " ", "2", "0", "0">> => ~evtResult.ok

\* C6: handling a frame whose event has no entry in the table returns Ok and
\* makes no key, outgoing-message or device-command send.
UnmappedNoEffect ==
    [][(frames' = frames + 1 /\ LastUnmapped')
         => (last'.result = "Ok" /\ last'.trace = <<>> /\ wire' = wire)]_vars

UnmappedHandled ==
    /\ LastUnmapped
    /\ last.result = "Ok"
    /\ mappings # EmptyTable
    /\ kat = "Some"

\* C8: key emission submits exactly one batch: the presses of the action's
\* keys in listed order, then their releases in reverse order; every key is
\* released as often as it is pressed; an empty list gives an empty batch.
KeyBatchPressRelease ==
    LastMapped =>
        LET keys == mappings[LastEvent].keys
            n == Len(keys)
        IN  /\ Cardinality(KeySends(last.trace)) = 1
            /\ last.trace[1].leg = "key"
            /\ Len(last.trace[1].batch) = 2 * n
            /\ \A i \in 1..n :
                 /\ last.trace[1].batch[i] = [key |-> keys[i], value |-> 1]
                 /\ last.trace[1].batch[n + i] = [key |-> keys[n + 1 - i], value |-> 0]
            /\ \A k \in KnownKeys :
                 Cardinality({i \in 1..(2 * n) : last.trace[1].batch[i] = [key |-> k, value |-> 1]})
                   = Cardinality({i \in 1..(2 * n) : last.trace[1].batch[i] = [key |-> k, value |-> 0]})

KeyBatchEmitted ==
    /\ LastMapped
    /\ last.trace[1].batch =
         << [key |-> "KEY_LEFTCTRL", value |-> 1], [key |-> "KEY_A", value |-> 1],
            [key |-> "KEY_A", value |-> 0], [key |-> "KEY_LEFTCTRL", value |-> 0] >>

\* C10: a descriptor list in which two descriptors have the same event string
\* builds a table, and the event maps to (and a dispatch executes) the action
\* of the last of them.
SameEvent(i, j) == config.mappings[i].event = config.mappings[j].event

AllValid ==
    \A i \in DOMAIN config.mappings :
        EventTryFrom(config.mappings[i].event).ok /\ ActionTryFrom(config.mappings[i]).ok

DuplicateLastWins ==
    /\ (AllValid /\ pc = "err_mappings") => FALSE
    /\ pc \in {"connect_input", "running", "done", "err_input"} =>
         \A i \in DOMAIN config.mappings :
             LET e == EventTryFrom(config.mappings[i].event).evt
                 lastIdx == CHOOSE j \in DOMAIN config.mappings :
                              /\ SameEvent(i, j)
                              /\ \A k \in DOMAIN config.mappings : SameEvent(i, k) => k <= j
             IN  /\ e \in DOMAIN mappings
                 /\ mappings[e].desc = config.mappings[lastIdx].description
                 /\ mappings[e] = ActionTryFrom(config.mappings[lastIdx]).act
                 /\ (LastMapped /\ LastEvent = e) =>
                      /\ last.trace[1].batch
                           = KeyBatch(ActionTryFrom(config.mappings[lastIdx]).act.keys)
                      /\ \A t \in DOMAIN last.trace :
                           last.trace[t].leg = "out" =>
                               last.trace[t].out = mappings[e].midi[t - 1]

DuplicateDispatched ==
    /\ config.mappings = <<MapA, MapB>>
    /\ LastMapped
    /\ last.handler = "main"
    /\ last.result = "Ok"
    /\ kat = "Some"
    /\ Len(last.trace) = 1
    /\ last.trace[1].batch =
         << [key |-> "KEY_B", value |-> 1], [key |-> "KEY_B", value |-> 1],
            [key |-> "KEY_B", value |-> 0], [key |-> "KEY_B", value |-> 0] >>

\* C1: for a channel that was constructed and later torn down, the edit-entry
\* command is sent exactly once (at construction) and the edit-exit command
\* exactly once (at teardown), whatever change_preset calls came between and
\* whichever of them failed.
EditModeOnceEach ==
    Constructed =>
        /\ kat \in {"Some", "Dropped"}
        /\ Count(wire, "on") = 1
        /\ kat = "Some" => Count(wire, "off") = 0
        /\ kat = "Dropped" =>
             Count(wire, "off") = 1 /\ wire[Len(wire)].cmd = "off"

EditModeCycleWithFailure ==
    /\ Constructed
    /\ kat = "Dropped"
    /\ pc = "done"
    /\ \E i, j \in DOMAIN wire :
         /\ wire[i].cmd = "preset" /\ ~wire[i].ok
         /\ wire[j].cmd = "preset" /\ wire[j].ok

\* C2: on a mapped event the legs run in the order key emission, outgoing
\* messages, device commands; after a failed send no later send is made,
\* handle returns Err, and what was sent before stays sent.
LegRank(leg) == CASE leg = "key" -> 1 [] leg = "out" -> 2 [] leg = "dev" -> 3

IsSuffix(t, w) ==
    Len(t) <= Len(w) /\ SubSeq(w, Len(w) - Len(t) + 1, Len(w)) = t

LegsInOrder ==
    LastMapped =>
        LET trace == last.trace
            act == mappings[LastEvent]
        IN  /\ trace # <<>>
            /\ trace[1].leg = "key"
            /\ \A i, j \in DOMAIN trace :
                 i < j => LegRank(trace[i].leg) <= LegRank(trace[j].leg)
            /\ \A i \in DOMAIN trace : ~trace[i].ok => i = Len(trace)
            /\ last.result = "Err" <=> \E i \in DOMAIN trace : ~trace[i].ok
            /\ pc = "running" => IsSuffix(DevFrames(trace), wire)
            /\ (last.result = "Ok" /\ last.handler = "main" /\ kat # "None") =>
                 Len(trace) = 1 + Len(act.kat)
            /\ (last.result = "Ok" /\ last.handler = "handler" /\ midi_out = "Some") =>
                 Len(trace) = 1 + Len(act.midi)

DeviceLegFailedAfterKeys ==
    /\ LastMapped
    /\ pc = "running"
    /\ last.result = "Err"
    /\ Len(last.trace) = 3
    /\ last.trace[1].leg = "key" /\ last.trace[1].ok
    /\ last.trace[2].leg = "dev" /\ last.trace[2].ok
    /\ last.trace[3].leg = "dev" /\ ~last.trace[3].ok
    /\ wire[Len(wire) - 1] = last.trace[2].dev

\* C3: a handle invocation that fails leaves the table, the sinks and the
\* channel's edit-mode state as they were, the callback goes on delivering
\* frames, and every later frame is dispatched as it would have been (the
\* result of handle is a function of the frame, the table, the sinks and the
\* outcome of its sends, none of which the failed invocation changed).
FailureLeavesHandler ==
    [][(frames' = frames + 1 /\ last'.result = "Err") =>
         /\ mappings' = mappings
         /\ kat' = kat
         /\ midi_out' = midi_out
         /\ pc' = "running"
         /\ Count(wire', "on") = Count(wire, "on")
         /\ Count(wire', "off") = Count(wire, "off")
         /\ overflow_checks' = overflow_checks]_vars

DispatchAfterFailure ==
    /\ pc = "running"
    /\ frames = 2
    /\ LastMapped
    /\ last.result = "Ok"
    /\ Len(wire) = 3
    /\ wire[2].cmd = "preset" /\ ~wire[2].ok
    /\ wire[3].cmd = "preset" /\ wire[3].ok
    /\ last.trace[2].dev = wire[3]

\* C4: every preset-select command is sent after the edit-entry send of its
\* channel succeeded and before its edit-exit send; nothing is sent on the
\* channel after the edit-exit command.
PresetOnlyInEditMode ==
    \A i \in DOMAIN wire :
        /\ wire[i].cmd = "preset" =>
             Constructed /\ \A j \in 1..i : wire[j].cmd # "off"
        /\ wire[i].cmd = "off" => i = Len(wire)
        /\ wire[i].cmd = "on" => i = 1

PresetThenExit ==
    /\ Len(wire) >= 3
    /\ wire[2].cmd = "preset"
    /\ wire[Len(wire)].cmd = "off"
    /\ frames = MaxFrames

\* C5: once the channel is constructed, the edit-exit command is attempted
\* exactly once on every path that destroys it: the shutdown after the
\* signal, a mapping-table error, an input-connection failure.
ExitOnEveryPath ==
    /\ kat = "Some" => pc \notin TerminalPcs
    /\ (Constructed /\ pc \in TerminalPcs) =>
         /\ pc \in {"done", "err_mappings", "err_input"}
         /\ kat = "Dropped"
         /\ Count(wire, "off") = 1
         /\ \E ok \in BOOLEAN :
              wire[Len(wire)] = exit_edit_mode(overflow_checks, ok)

ExitOnErrorUnwind ==
    /\ Constructed
    /\ pc = "err_mappings"
    /\ Count(wire, "off") = 1
    /\ ~wire[Len(wire)].ok

\* The numeric code of each device preset: the panel 0, the slots A1..B4 1..8.
DeviceCode(preset) ==
    CASE preset = "Panel" -> 0
      [] preset = "A1" -> 1 [] preset = "A2" -> 2
      [] preset = "A3" -> 3 [] preset = "A4" -> 4
      [] preset = "B1" -> 5 [] preset = "B2" -> 6
      [] preset = "B3" -> 7 [] preset = "B4" -> 8

\* C11: for every preset with code c, change_preset sends a frame whose
\* payload is [0,0,0,0,0x33,0x12] ++ [0,1,0,0,0,c] ++ [checksum], the checksum
\* taken over the six command bytes only; for A1 the command bytes are
\* [0,1,0,0,0,1].
PresetFrameBytes ==
    \A i \in DOMAIN presetCalls :
        LET c == DeviceCode(presetCalls[i].preset)
            cmd == <<0, 1, 0, 0, 0, c>>
        IN  /\ i + 1 \in DOMAIN wire
            /\ wire[i + 1].cmd = "preset"
            /\ wire[i + 1].msg.id = <<65>>
            /\ wire[i + 1].msg.data
                 = <<0, 0, 0, 0, 51, 18>> \o cmd \o <<(128 - (SumSeq(cmd) % 128)) % 128>>
            /\ presetCalls[i].preset = "A1" =>
                 SubSeq(wire[i + 1].msg.data, 7, 12) = <<0, 1, 0, 0, 0, 1>>

PresetA1ThenB4Sent ==
    /\ Len(presetCalls) = 2
    /\ presetCalls[1].preset = "A1"
    /\ presetCalls[2].preset = "B4"
    /\ wire[2].msg.data = <<0, 0, 0, 0, 51, 18, 0, 1, 0, 0, 0, 1, 126>>
    /\ wire[3].msg.data = <<0, 0, 0, 0, 51, 18, 0, 1, 0, 0, 0, 8, 119>>

\* C12: a failure of the edit-exit send at teardown is only logged: the
\* teardown completes, the send is not repeated, and how main ends does not
\* depend on it.
ExitFailureOnlyLogged ==
    /\ (frames > 0 /\ pc \in TerminalPcs) => pc = "done"
    /\ \A i \in DOMAIN wire :
         (wire[i].cmd = "off" /\ ~wire[i].ok) =>
             /\ i = Len(wire)
             /\ Count(wire, "off") = 1
             /\ kat = "Dropped"
             /\ pc \in TerminalPcs
             /\ pc = "err_kat" <=> ~wire[1].ok
             /\ pc = "err_mappings" => ~get_mappings(config).ok
             /\ (wire[1].ok /\ get_mappings(config).ok) => pc \in {"done", "err_input"}

ExitFailedAtShutdown ==
    /\ pc = "done"
    /\ frames > 0
    /\ Constructed
    /\ wire[Len(wire)].cmd = "off"
    /\ ~wire[Len(wire)].ok

\* C13: a change_preset whose send fails returns the error and leaves the
\* channel in edit mode: it sends no edit-entry or edit-exit command, later
\* change_preset calls are sent as usual, and the edit-exit command is still
\* sent at teardown.
PresetFailureKeepsChannel ==
    /\ \A i \in DOMAIN presetCalls :
         /\ i + 1 \in DOMAIN wire
         /\ wire[i + 1].cmd = "preset"
         /\ presetCalls[i].result = "Err" <=> ~wire[i + 1].ok
    /\ Count(wire, "preset") = Len(presetCalls)
    /\ presetCalls # <<>> => (Constructed /\ Count(wire, "on") = 1)
    /\ pc = "katana_active" =>
         /\ kat = "Some"
         /\ Count(wire, "off") = 0
         /\ Len(wire) = 1 + Len(presetCalls)
    /\ pc = "katana_closed" =>
         /\ kat = "Dropped"
         /\ Count(wire, "off") = 1
         /\ wire[Len(wire)].cmd = "off"
         /\ Len(wire) = 2 + Len(presetCalls)

PresetSentAfterFailedPreset ==
    /\ pc = "katana_closed"
    /\ Len(presetCalls) = 2
    /\ presetCalls[1].result = "Err"
    /\ presetCalls[2].result = "Ok"
    /\ wire[3].cmd = "preset" /\ wire[3].ok
    /\ wire[4].cmd = "off"

\* Control-Change frames of the input set, as pairs with the same controller
\* number and different value bytes (the smaller value first: the property
\* below is symmetric in the two frames).
ControllerPairs ==
    {p \in Frames \X Frames :
        /\ Len(p[1]) = 3 /\ Len(p[2]) = 3
        /\ p[1][1] = 176 /\ p[2][1] = 176
        /\ p[1][2] = p[2][2]
        /\ p[1][3] < p[2][3]}

\* C14: two Control-Change frames with the same controller number and
\* different value bytes decode to the same event and, handled from the same
\* state, give the same effects and the same result, whichever send fails.
ControllerValueIgnored ==
    pc = "running" =>
        \A p \in ControllerPairs :
            /\ LiveEventParse(p[1]).kind = "Midi"
            /\ EventOfMessage(LiveEventParse(p[1]).msg) = [tag |-> "CC", val |-> p[1][2]]
            /\ EventOfMessage(LiveEventParse(p[2]).msg) = [tag |-> "CC", val |-> p[1][2]]
            /\ \A failAt \in 0..SendBudget :
                 /\ MainHandle(p[1], mappings, kat, overflow_checks, failAt)
                      = MainHandle(p[2], mappings, kat, overflow_checks, failAt)
                 /\ HandlerHandle(p[1], mappings, midi_out, failAt)
                      = HandlerHandle(p[2], mappings, midi_out, failAt)

ControllerFrameDispatched ==
    /\ pc = "running"
    /\ last.handler = "main"
    /\ last.frame = <<176, 64, 127>>
    /\ LastMapped
    /\ kat = "Some"
    /\ Len(last.trace) = 2
    /\ last.trace[2].leg = "dev" /\ last.trace[2].ok
    /\ last.result = "Ok"

\* C15: when the mapped action lists device commands (or outgoing messages)
\* and no device channel (or output) is configured, handle makes the one key
\* send of the action and no other send, and returns the result of that key
\* send: the missing sink is never an error.
MissingSinkAdvisoryOnly ==
    LastMapped =>
        LET act == mappings[LastEvent]
            onlyKeys ==
                /\ Len(last.trace) = 1
                /\ last.trace[1].leg = "key"
                /\ Len(last.trace[1].batch) = 2 * Len(act.keys)
                /\ last.result = "Ok" <=> last.trace[1].ok
                /\ last.result = "Err" <=> ~last.trace[1].ok
        IN  /\ (last.handler = "main" /\ kat = "None" /\ act.kat # <<>>) => onlyKeys
            /\ (last.handler = "handler" /\ midi_out = "None" /\ act.midi # <<>>) => onlyKeys

MissingSinkHandled ==
    /\ pc = "running"
    /\ LastMapped
    /\ last.result = "Ok"
    /\ last.advisory = "no_output"
    /\ Len(last.trace) = 1
    /\ \/ last.handler = "main" /\ kat = "None" /\ mappings[LastEvent].kat # <<>>
       \/ last.handler = "handler" /\ midi_out = "None" /\ mappings[LastEvent].midi # <<>>

\* C16: a frame that does not parse (empty, or a Program Change without its
\* data byte) gives an error; a non-channel-voice frame (timing clock) and a
\* channel-voice frame other than Program Change / Control Change (note on)
\* give success; none of them makes any key, outgoing or device send.
UndecodedFrameNoEffect ==
    last.handler # "none" =>
        /\ last.frame \in {<<>>, <<192>>} =>
             (last.result = "Err" /\ last.trace = <<>>)
        /\ last.frame \in {<<248>>, <<144, 60, 100>>} =>
             (last.result = "Ok" /\ last.trace = <<>>)

TruncatedFrameRejected ==
    /\ last.handler = "main"
    /\ last.frame = <<192>>
    /\ last.result = "Err"
    /\ [tag |-> "PC", val |-> 1] \in DOMAIN mappings
    /\ kat = "Some"
    /\ Len(wire) = 1

\* C17: the mapping table is not modified after construction: every call of
\* handle, whatever its frame and outcome, leaves the table as it was, and so
\* does every later step of main.
MappingsImmutable ==
    [][(frames' = frames + 1 \/ pc \in {"connect_input", "running"})
          => mappings' = mappings]_vars

MappedFrameFailedTableKept ==
    /\ frames = 2
    /\ LastMapped
    /\ last.result = "Err"
    /\ last.trace # <<>>
    /\ Cardinality(DOMAIN mappings) = 2

\* C18: an edit-exit command is sent only on a channel whose edit-entry send
\* succeeded; a construction that fails in its edit-entry send sends no
\* edit-exit command.
ExitOnlyAfterEntry ==
    \A i \in DOMAIN wire : wire[i].cmd = "off" => Constructed

\* The code of the preset each KatanaAction selects.
ActionCode(act) ==
    CASE act = "PresetPanel" -> 0
      [] act = "PresetA1" -> 1 [] act = "PresetA2" -> 2
      [] act = "PresetA3" -> 3 [] act = "PresetA4" -> 4
      [] act = "PresetB1" -> 5 [] act = "PresetB2" -> 6
      [] act = "PresetB3" -> 7 [] act = "PresetB4" -> 8

DevSends(trace) == SelectSeq(trace, LAMBDA x : x.leg = "dev")

\* C19: in the device-command leg of one dispatch the action's commands are
\* sent one preset frame each in the listed order; at the first send that
\* fails the rest are not sent and handle returns an error.
DeviceLegStopsAtFailure ==
    (last.handler = "main" /\ LastMapped /\ kat # "None") =>
        LET cmds == mappings[LastEvent].kat
            devs == DevSends(last.trace)
        IN  /\ Len(devs) <= Len(cmds)
            /\ \A i \in DOMAIN devs :
                 /\ devs[i].dev.cmd = "preset"
                 /\ Len(devs[i].dev.msg.data) = 13
                 /\ devs[i].dev.msg.data[12] = ActionCode(cmds[i])
                 /\ i < Len(devs) => devs[i].ok
            /\ ~last.trace[1].ok => devs = <<>>
            /\ (last.trace[1].ok /\ Len(devs) < Len(cmds)) =>
                 (devs # <<>> /\ ~devs[Len(devs)].ok)
            /\ (devs # <<>> /\ ~devs[Len(devs)].ok) => last.result = "Err"
            /\ (last.trace[1].ok /\ \A i \in DOMAIN devs : devs[i].ok) =>
                 last.result = "Ok"

FirstDeviceCommandFailed ==
    /\ last.handler = "main"
    /\ last.frame = <<192, 1>>
    /\ [tag |-> "PC", val |-> 1] \in DOMAIN mappings
    /\ mappings[[tag |-> "PC", val |-> 1]].kat = <<"PresetA1", "PresetB4">>
    /\ Len(last.trace) = 2
    /\ last.trace[1].ok
    /\ last.trace[2].leg = "dev" /\ ~last.trace[2].ok
    /\ last.trace[2].dev.msg.data[12] = 1
    /\ last.result = "Err"

====
